---- MODULE Spec2Model ----
(***************************************************************************)
(* Model of src/chunk_type/mod.rs: the PNG chunk type code ChunkType, its  *)
(* two constructors (try_from, from_str), its accessors and its text       *)
(* rendering.  A byte is a number in 0..255.  A [u8; 4] and a Vec<u8> are   *)
(* sequences of bytes.  A &str / String is the sequence of its Unicode     *)
(* scalar values; as_bytes is its UTF-8 encoding and String::from_utf8 is  *)
(* UTF-8 decoding.  A panic ends the calling thread: pc = "panicked".      *)
(***************************************************************************)
EXTENDS Integers, Sequences

VARIABLES pc, input, chunks, call, ret

vars == <<pc, input, chunks, call, ret>>

\* ---------------------------------------------------------------- bounds
\* longest string (in characters) handed to from_str
MaxStrLen == 5
\* number of ChunkType instances the caller holds at once
MaxChunks == 2

\* byte values a caller puts in a [u8; 4]: both ends of u8 and both sides of
\* every boundary of the two letter ranges
ByteVals == {0, 64, 65, 90, 91, 96, 97, 122, 123, 255}
\* characters a caller puts in a &str: the four boundary letters, the digit
\* '1' (one byte, not a letter) and U+00E9 (two bytes in UTF-8)
CharVals == {65, 90, 97, 122, 49, 233}

ByteArrays == [1..4 -> ByteVals]
Strs == UNION {[1..n -> CharVals] : n \in 0..MaxStrLen}

\* ------------------------------------------------------- std: bit operators
RECURSIVE BitAnd(_, _)
BitAnd(a, b) ==
    IF a = 0 \/ b = 0 THEN 0
    ELSE (a % 2) * (b % 2) + 2 * BitAnd(a \div 2, b \div 2)

Shl(a, n) == a * 2^n

\* ------------------------------------------------------- std: UTF-8
\* str::as_bytes of one character
EncodeChar(c) ==
    IF c < 128 THEN <<c>>
    ELSE IF c < 2048 THEN <<192 + (c \div 64), 128 + (c % 64)>>
    ELSE IF c < 65536 THEN
        <<224 + (c \div 4096), 128 + ((c \div 64) % 64), 128 + (c % 64)>>
    ELSE <<240 + (c \div 262144), 128 + ((c \div 4096) % 64),
           128 + ((c \div 64) % 64), 128 + (c % 64)>>

\* str::as_bytes
RECURSIVE as_bytes(_)
as_bytes(s) ==
    IF s = <<>> THEN <<>> ELSE EncodeChar(Head(s)) \o as_bytes(Tail(s))

IsCont(v, i) == i <= Len(v) /\ v[i] \in 128..191

\* String::from_utf8 from position i on, acc the characters decoded so far
RECURSIVE Decode(_, _, _)
Decode(v, i, acc) ==
    IF i > Len(v) THEN [tag |-> "Ok", val |-> acc]
    ELSE LET b == v[i] IN
      IF b < 128 THEN Decode(v, i + 1, Append(acc, b))
      ELSE IF b \in 194..223 /\ IsCont(v, i + 1) THEN
          Decode(v, i + 2, Append(acc, (b - 192) * 64 + (v[i + 1] - 128)))
      ELSE IF b \in 224..239 /\ IsCont(v, i + 1) /\ IsCont(v, i + 2) THEN
          LET cp == (b - 224) * 4096 + (v[i + 1] - 128) * 64 + (v[i + 2] - 128)
          IN IF cp >= 2048 /\ cp \notin 55296..57343
             THEN Decode(v, i + 3, Append(acc, cp))
             ELSE [tag |-> "Err", val |-> i]
      ELSE IF b \in 240..244 /\ IsCont(v, i + 1) /\ IsCont(v, i + 2)
                             /\ IsCont(v, i + 3) THEN
          LET cp == (b - 240) * 262144 + (v[i + 1] - 128) * 4096
                    + (v[i + 2] - 128) * 64 + (v[i + 3] - 128)
          IN IF cp \in 65536..1114111
             THEN Decode(v, i + 4, Append(acc, cp))
             ELSE [tag |-> "Err", val |-> i]
      ELSE [tag |-> "Err", val |-> i]

from_utf8(v) == Decode(v, 1, <<>>)

\* ------------------------------------------------------- the program
EncodingErr ==
    "Chunk type encoding must be in ascii lowercase/upper case (65-90/97-122)"
LengthPanic == "Slice with incorrect length"
Utf8Panic == "Invalid byte sequence for UTF-8 sequence"

\* mutant: the copy into the fixed array runs its index backwards
convert_slice_to_fixed_Reversed(arr) ==
    IF Len(arr) = 4
    THEN [tag |-> "Ok", val |-> [i \in 1..4 |-> arr[5 - i]]]
    ELSE [tag |-> "Panic", val |-> LengthPanic]

\* fn convert_slice_to_fixed(arr: &[u8]) -> [u8; 4]
convert_slice_to_fixed(arr) ==
    IF Len(arr) = 4 THEN [tag |-> "Ok", val |-> arr]
    ELSE [tag |-> "Panic", val |-> LengthPanic]

\* mutant: <= for < at the lower end of the uppercase range
InvalidByte_Strict(byte_val) ==
    byte_val <= 65 \/ (byte_val > 90 /\ byte_val < 97) \/ byte_val > 122

\* mutant: 96 for 97 at the lower end of the lowercase range
InvalidByte_Lax(byte_val) ==
    byte_val < 65 \/ (byte_val > 90 /\ byte_val < 96) \/ byte_val > 122

\* mutant: the test of the upper end of the lowercase range is missing
InvalidByte_NoUpper(byte_val) ==
    byte_val < 65 \/ (byte_val > 90 /\ byte_val < 97)

\* the test of line 22
InvalidByte(byte_val) ==
    byte_val < 65 \/ (byte_val > 90 /\ byte_val < 97) \/ byte_val > 122

\* mutant: only the first byte is tested
try_from_FirstOnly(arr) ==
    IF InvalidByte(arr[1])
    THEN [tag |-> "Err", val |-> EncodingErr]
    ELSE [tag |-> "Ok", val |-> [_container |-> arr]]

\* ChunkType::try_from
try_from(arr) ==
    IF \E i \in 1..Len(arr) : InvalidByte(arr[i])
    THEN [tag |-> "Err", val |-> EncodingErr]
    ELSE [tag |-> "Ok", val |-> [_container |-> arr]]

\* ChunkType::from_str
from_str(input_str) ==
    LET fixed == convert_slice_to_fixed(as_bytes(input_str)) IN
    IF fixed.tag = "Panic" THEN fixed ELSE try_from(fixed.val)

\* ChunkType::bytes
bytes(self) == self._container

is_critical(self) == BitAnd(self._container[1], Shl(1, 5)) = 0

\* mutant: the first byte is read instead of the second
is_public_WrongByte(self) == BitAnd(self._container[1], Shl(1, 5)) = 0

is_public(self) == BitAnd(self._container[2], Shl(1, 5)) = 0

is_reserved_bit_valid(self) == BitAnd(self._container[3], Shl(1, 5)) = 0

\* mutant: the polarity of the other three predicates
is_safe_to_copy_Clear(self) == BitAnd(self._container[4], Shl(1, 5)) = 0

is_safe_to_copy(self) == BitAnd(self._container[4], Shl(1, 5)) # 0

\* mutant: validity broadened to the critical bit
is_valid_Broad(self) == is_reserved_bit_valid(self) /\ is_critical(self)

is_valid(self) == is_reserved_bit_valid(self)

\* mutant: the last byte is left out of the rendered text
to_string_Truncated(self) ==
    LET r == from_utf8(SubSeq(self._container, 1, 3)) IN
    IF r.tag = "Ok" THEN [tag |-> "String", val |-> r.val]
    ELSE [tag |-> "Panic", val |-> Utf8Panic]

\* impl ToString for ChunkType
to_string(self) ==
    LET r == from_utf8(self._container) IN
    IF r.tag = "Ok" THEN [tag |-> "String", val |-> r.val]
    ELSE [tag |-> "Panic", val |-> Utf8Panic]

\* #[derive(PartialEq)]
ChunkEq(a, b) == \A i \in 1..4 : a._container[i] = b._container[i]

\* ------------------------------------------------------- state machine
NoCall == [op |-> "none", self |-> 0, arg |-> <<>>]
NoRet == [tag |-> "None", val |-> <<>>]

Init ==
    /\ pc = "run"
    /\ input \in ([kind : {"bytes"}, v : ByteArrays]
                  \cup [kind : {"str"}, v : Strs])
    /\ chunks = <<>>
    /\ call = NoCall
    /\ ret = NoRet

\* the effect of a constructor's result r on the caller
Construct(r) ==
    /\ ret' = r
    /\ pc' = IF r.tag = "Panic" THEN "panicked" ELSE pc
    /\ chunks' = IF r.tag = "Ok" THEN Append(chunks, r.val) ELSE chunks

\* ChunkType::try_from(input)
TryFrom ==
    /\ pc = "run"
    /\ input.kind = "bytes"
    /\ Len(chunks) < MaxChunks
    /\ call' = [op |-> "try_from", self |-> 0, arg |-> input.v]
    /\ Construct(try_from(input.v))
    /\ UNCHANGED input

\* ChunkType::from_str(input)
FromStr ==
    /\ pc = "run"
    /\ input.kind = "str"
    /\ Len(chunks) < MaxChunks
    /\ call' = [op |-> "from_str", self |-> 0, arg |-> input.v]
    /\ Construct(from_str(input.v))
    /\ UNCHANGED input

\* ChunkType::from_str(&c.to_string()), c the instance just rendered
Reparse ==
    /\ pc = "run"
    /\ ret.tag = "String"
    /\ Len(chunks) < MaxChunks
    /\ call' = [op |-> "from_str", self |-> call.self, arg |-> ret.val]
    /\ Construct(from_str(ret.val))
    /\ UNCHANGED input

\* an accessor op called on the instance i returns r
Access(op, i, r) ==
    /\ call' = [op |-> op, self |-> i, arg |-> <<>>]
    /\ ret' = r
    /\ UNCHANGED <<pc, input, chunks>>

Bytes ==
    /\ pc = "run"
    /\ \E i \in DOMAIN chunks :
         Access("bytes", i, [tag |-> "Bytes", val |-> bytes(chunks[i])])

IsCritical ==
    /\ pc = "run"
    /\ \E i \in DOMAIN chunks :
         Access("is_critical", i,
                [tag |-> "Bool", val |-> is_critical(chunks[i])])

IsPublic ==
    /\ pc = "run"
    /\ \E i \in DOMAIN chunks :
         Access("is_public", i, [tag |-> "Bool", val |-> is_public(chunks[i])])

IsReservedBitValid ==
    /\ pc = "run"
    /\ \E i \in DOMAIN chunks :
         Access("is_reserved_bit_valid", i,
                [tag |-> "Bool", val |-> is_reserved_bit_valid(chunks[i])])

IsSafeToCopy ==
    /\ pc = "run"
    /\ \E i \in DOMAIN chunks :
         Access("is_safe_to_copy", i,
                [tag |-> "Bool", val |-> is_safe_to_copy(chunks[i])])

IsValid ==
    /\ pc = "run"
    /\ \E i \in DOMAIN chunks :
         Access("is_valid", i, [tag |-> "Bool", val |-> is_valid(chunks[i])])

\* c.to_string()
ToString ==
    /\ pc = "run"
    /\ \E i \in DOMAIN chunks :
         LET r == to_string(chunks[i]) IN
         /\ call' = [op |-> "to_string", self |-> i, arg |-> <<>>]
         /\ ret' = r
         /\ pc' = IF r.tag = "Panic" THEN "panicked" ELSE pc
         /\ UNCHANGED <<input, chunks>>

Next ==
    \/ TryFrom
    \/ FromStr
    \/ Reparse
    \/ Bytes
    \/ IsCritical
    \/ IsPublic
    \/ IsReservedBitValid
    \/ IsSafeToCopy
    \/ IsValid
    \/ ToString

Spec == Init /\ [][Next]_vars

\* ------------------------------------------------------- properties
\* the encoding rule of the format, stated on its own
IsAsciiLetter(b) == b \in (65..90) \cup (97..122)
AllLetters(v) == \A i \in 1..Len(v) : IsAsciiLetter(v[i])
\* bit 5 (mask 0x20) of a byte, by arithmetic
Bit5(b) == (b \div 32) % 2

\* C1: try_from of a 4-byte array whose bytes are all ASCII letters returns
\* Ok, and bytes() of the instance is the input array, value for value.
C1_LettersConstruct ==
    (call.op = "try_from" /\ AllLetters(call.arg)) =>
        /\ ret.tag = "Ok"
        /\ Len(bytes(ret.val)) = 4
        /\ \A i \in 1..4 : bytes(ret.val)[i] = call.arg[i]

C1_Witness ==
    /\ call.op = "try_from"
    /\ call.arg = <<65, 90, 97, 122>>
    /\ ret.tag = "Ok"

\* C2: try_from of a 4-byte array with at least one byte that is not an
\* ASCII letter fails with the encoding error, and the caller gets no
\* instance made of those bytes.
C2_NonLetterRejected ==
    (call.op = "try_from" /\ ~AllLetters(call.arg)) =>
        /\ ret.tag = "Err"
        /\ ret.val = EncodingErr
        /\ \A i \in DOMAIN chunks : bytes(chunks[i]) # call.arg

C2_Witness ==
    /\ call.op = "try_from"
    /\ ret.tag = "Err"
    /\ \E k \in 1..4 : \E b \in {64, 91, 96, 123} :
         /\ call.arg[k] = b
         /\ \A j \in (1..4) \ {k} : IsAsciiLetter(call.arg[j])

\* C3: every instance that exists holds 4 ASCII letters, and no operation
\* changes the bytes of an instance that exists.
AllInstancesValid ==
    \A i \in DOMAIN chunks :
        Len(chunks[i]._container) = 4 /\ AllLetters(chunks[i]._container)

InstancesKept ==
    \A i \in DOMAIN chunks : i \in DOMAIN chunks' /\ chunks'[i] = chunks[i]

C3_InstancesAlwaysLetters == [](AllInstancesValid) /\ [][InstancesKept]_vars

C3_Witness ==
    /\ Len(chunks) >= 2
    /\ call.op \in {"bytes", "to_string", "is_valid", "is_critical"}
    /\ call.self = 1

\* C4: from_str of a string whose raw byte length is not 4 returns a length
\* error to the caller, one that differs from the encoding error.
C4_LengthErrorReturned ==
    (call.op = "from_str" /\ Len(as_bytes(call.arg)) # 4) =>
        /\ pc = "run"
        /\ ret.tag = "Err"
        /\ ret.val # EncodingErr

\* C5: rendering an instance to text and parsing the text again succeeds and
\* gives an instance equal to the first.
C5_RoundTrip ==
    (call.op = "from_str" /\ call.self # 0) =>
        /\ ret.tag = "Ok"
        /\ ChunkEq(ret.val, chunks[call.self])
        /\ \A i \in 1..4 : ret.val._container[i] = chunks[call.self]._container[i]

C5_Witness ==
    /\ call.op = "from_str"
    /\ call.self # 0
    /\ ret.tag = "Ok"
    /\ ret.val._container[1] # ret.val._container[4]

\* C6: is_safe_to_copy is true exactly when bit 5 of byte 3 is 1, whatever
\* bytes 0, 1 and 2 are.
C6_SafeToCopyBitSet ==
    (call.op = "is_safe_to_copy") =>
        (ret.val <=> (Bit5(chunks[call.self]._container[4]) = 1))

C6_Witness ==
    /\ call.op = "is_safe_to_copy"
    /\ ret.val = TRUE
    /\ \A k \in 1..3 : Bit5(chunks[call.self]._container[k]) = 0

\* C7: is_critical, is_public and is_reserved_bit_valid are true exactly when
\* bit 5 of byte 0, byte 1 and byte 2 respectively is 0.
C7_BitClearPredicates ==
    /\ (call.op = "is_critical") =>
          (ret.val <=> (Bit5(chunks[call.self]._container[1]) = 0))
    /\ (call.op = "is_public") =>
          (ret.val <=> (Bit5(chunks[call.self]._container[2]) = 0))
    /\ (call.op = "is_reserved_bit_valid") =>
          (ret.val <=> (Bit5(chunks[call.self]._container[3]) = 0))

C7_Witness ==
    /\ call.op = "is_public"
    /\ ret.val = TRUE
    /\ Bit5(chunks[call.self]._container[1]) = 1
    /\ Bit5(chunks[call.self]._container[3]) = 1

\* C8: is_valid returns what is_reserved_bit_valid returns on the same
\* instance; it is true when the third byte is uppercase, whatever the case
\* of the other three bytes.
C8_ValidIsReservedBit ==
    (call.op = "is_valid") =>
        /\ ret.val <=> is_reserved_bit_valid(chunks[call.self])
        /\ (chunks[call.self]._container[3] \in 65..90) => ret.val

C8_Witness ==
    /\ call.op = "is_valid"
    /\ ret.val = TRUE
    /\ chunks[call.self]._container[1] \in 97..122
    /\ chunks[call.self]._container[2] \in 97..122
    /\ chunks[call.self]._container[3] \in 65..90
    /\ chunks[call.self]._container[4] \in 97..122

\* C9: to_string of an instance never panics and returns the 4-character
\* ASCII string whose raw bytes are bytes() of the instance.
C9_ToStringInfallible ==
    (call.op = "to_string") =>
        /\ pc = "run"
        /\ ret.tag = "String"
        /\ Len(ret.val) = 4
        /\ \A i \in 1..4 : ret.val[i] < 128
        /\ as_bytes(ret.val) = bytes(chunks[call.self])

C9_Witness ==
    /\ call.op = "to_string"
    /\ ret.tag = "String"
    /\ ret.val = <<65, 90, 97, 122>>

\* C10: from_str of a 4-character ASCII-letter string succeeds and gives the
\* instance, and the bytes, that try_from gives for the 4 raw bytes of the
\* string (the character codes themselves, the string being ASCII).
C10_ConstructorsAgree ==
    (call.op = "from_str" /\ Len(call.arg) = 4 /\ AllLetters(call.arg)) =>
        /\ ret.tag = "Ok"
        /\ try_from(call.arg).tag = "Ok"
        /\ ChunkEq(ret.val, try_from(call.arg).val)
        /\ bytes(ret.val) = bytes(try_from(call.arg).val)

C10_Witness ==
    /\ call.op = "from_str"
    /\ call.self = 0
    /\ call.arg = <<122, 65, 97, 90>>
    /\ ret.tag = "Ok"

====
